---------------------------- MODULE Spec2Model ----------------------------
(***************************************************************************)
(* Model of the real-time quant analytics pipeline:                        *)
(*   DataStore            (src/data_store.py)                              *)
(*   AlertManager         (src/alerts.py)                                  *)
(*   Mock/Binance clients (src/websocket_client.py)                        *)
(*                                                                         *)
(* Real numbers (prices, percentages, volatilities, thresholds) are exact  *)
(* rationals <<numerator, denominator>> with a positive denominator, in    *)
(* lowest terms.  Intervals and the clock are counted in tenths of a       *)
(* second.                                                                 *)
(***************************************************************************)
EXTENDS Integers, Sequences, FiniteSets, TLC

VARIABLES
    \* ---- DataStore -------------------------------------------------------
    max_records,            \* self.max_records
    data,                   \* self.data, the deque(maxlen=max_records)
    df,                     \* self.df, the DataFrame rebuilt from data
    added,                  \* history: ticks passed to add_tick since the last clear
    \* ---- AlertManager ----------------------------------------------------
    max_alerts,             \* self.max_alerts
    alerts,                 \* self.alerts
    callbacks,              \* self.callbacks
    price_change_threshold, \* self.price_change_threshold
    volatility_threshold,   \* self.volatility_threshold
    volatility_critical,    \* self.volatility_critical
    raised,                 \* history: every alert handed to _trigger_alert, in order
    last_call,              \* the last AlertManager call: operation, arguments, result, observer invocations
    \* ---- tick sources ----------------------------------------------------
    binance,                \* the BinanceWebSocketClient object, or NoClient
    mock,                   \* the MockWebSocketClient object (the source itself or the fallback), or NoClient
    b_pc,                   \* where BinanceWebSocketClient.stream_data is
    m_pc,                   \* where MockWebSocketClient.stream_data is
    ws,                     \* the websocket of the live adapter
    last_recv,              \* how the last websocket.recv() of the live adapter ended
    delivered,              \* history: the ticks passed to the callback, in order
    clock,                  \* time, in tenths of a second
    outcome,                \* how the caller's stream_data call stands
    \* ---- the application session (app.py) ---------------------------------
    session_previous_price, \* st.session_state.previous_price
    callback_pc,            \* where data_stream_callback is
    \* ---- callers of the components ---------------------------------------
    held,                   \* the result of a reader call that a caller still holds
    checker,                \* a thread inside check_volatility_alert: position and locals
    setter,                 \* a thread inside set_thresholds: position and arguments
    analytics               \* a QuantAnalytics call: its arguments and its result

store_vars == <<max_records, data, df, added>>
alert_vars == <<max_alerts, alerts, callbacks, price_change_threshold,
                volatility_threshold, volatility_critical, raised, last_call>>
source_vars == <<binance, mock, b_pc, m_pc, ws, last_recv, delivered, clock, outcome>>
app_vars == <<session_previous_price, callback_pc>>
caller_vars == <<held, checker, setter, analytics>>
vars == <<store_vars, alert_vars, source_vars, app_vars, caller_vars>>

----------------------------------------------------------------------------
(* Bounds of the model                                                     *)

MaxCapacity == 2        \* largest max_records tried
MaxAdds == 4            \* add_tick calls between two clears
MaxAlertCap == 2        \* largest max_alerts tried
MaxRaised == 3          \* alerts raised between two clear_alerts, default thresholds
MaxRaisedCfg == 1       \* alerts raised between two clear_alerts, thresholds being reconfigured
MaxObservers == 2       \* registered observers
MaxTicks == 3           \* ticks delivered in a run
MaxClock == 320         \* the run ends after 32 seconds
MaxRows == 3            \* largest n asked of get_latest and get_recent_alerts
MaxEdits == 1           \* changes a caller makes to a result it holds
MaxReadAdds == 3        \* add_tick calls while results are held
MaxReadRaised == 2      \* alerts raised while results are held
MaxPipeTicks == 21      \* ticks the mock source hands to the pipeline in a run
MaxMoves == 1           \* price moves of the mock source in a pipeline run
MaxSets == 2            \* set_thresholds calls made by the configuring thread
MaxChecks == 2          \* check_volatility_alert calls made by the checking thread
MaxPrices == 3          \* longest price series handed to QuantAnalytics
MaxWindow == 3          \* largest window handed to QuantAnalytics

None == "None"                 \* None where a float is optional
NaN == "nan"                   \* float('nan')
NoAlert == [none |-> TRUE]     \* None where an Alert is optional
Raised(e) == [exception |-> e] \* a call that ends by raising e

Min(a, b) == IF a < b THEN a ELSE b
Abs(n) == IF n < 0 THEN -n ELSE n

\* s[-n:] on a list, n >= 0: the whole list when n is 0
SliceLast(s, n) == IF n = 0 THEN s ELSE SubSeq(s, Len(s) - Min(n, Len(s)) + 1, Len(s))

\* DataFrame.tail(n) and Series.tail(n), n >= 0: no rows when n is 0, else the last n rows
DataFrameHead(f, n) == SubSeq(f, 1, Min(n, Len(f)))
DataFrameTail(f, n) == IF n = 0 THEN <<>> ELSE SliceLast(f, n)

----------------------------------------------------------------------------
(* Rational arithmetic standing for Python's float arithmetic              *)

RECURSIVE GCD(_, _)
GCD(a, b) == IF b = 0 THEN a ELSE GCD(b, a % b)

Rat(n, d) ==
    LET g == GCD(Abs(n), Abs(d))
        s == IF d < 0 THEN -1 ELSE 1
    IN  <<(s * n) \div g, (s * d) \div g>>

RSub(a, b) ==
    LET g == GCD(a[2], b[2])
    IN  Rat(a[1] * (b[2] \div g) - b[1] * (a[2] \div g), a[2] * (b[2] \div g))
RMul(a, b) == Rat(a[1] * b[1], a[2] * b[2])
RDiv(a, b) == Rat(a[1] * b[2], a[2] * b[1])
RAdd(a, b) ==
    LET g == GCD(a[2], b[2])
    IN  Rat(a[1] * (b[2] \div g) + b[1] * (a[2] \div g), a[2] * (b[2] \div g))
RAbs(a) == <<Abs(a[1]), a[2]>>
RLt(a, b) == a[1] * b[2] < b[1] * a[2]
RGt(a, b) == RLt(b, a)
RMax(a, b) == IF RLt(a, b) THEN b ELSE a
Zero == <<0, 1>>

\* round(x, 2) on a value that binary floating point holds exactly: ties go to even
Round2(x) ==
    LET n == x[1] * 100
        q == n \div x[2]
        r == n - q * x[2]
        up == IF 2 * r > x[2] THEN 1
              ELSE IF 2 * r < x[2] THEN 0
              ELSE q % 2
    IN  Rat(q + up, 100)

----------------------------------------------------------------------------
(* DataStore                                                               *)

StorePrices == {<<100, 1>>, <<102, 1>>, <<110, 1>>}

\* a tick as the sources build it: the timestamp is an ISO-8601 string
Tick(t, p) == [symbol |-> "BTC/USD", timestamp |-> <<"iso", t>>, price |-> p, volume |-> <<10, 1>>]

\* pd.to_datetime on one ISO string
to_datetime(ts) == <<"datetime", ts[2]>>

\* deque.append on a deque(maxlen): append on the right, drop from the left when over maxlen
DequeAppendDropNewest(d, x, maxlen) == IF Len(d) >= maxlen THEN d ELSE Append(d, x)
DequeAppend(d, x, maxlen) ==
    LET a == Append(d, x)
    IN  IF Len(a) > maxlen THEN Tail(a) ELSE a

BuildFrameStale(d) ==
    [i \in 1..(Len(d) - 1) |-> [d[i] EXCEPT !.timestamp = to_datetime(d[i].timestamp)]]
\* pd.DataFrame(list(self.data)) followed by the timestamp column conversion
BuildFrame(d) == [i \in 1..Len(d) |-> [d[i] EXCEPT !.timestamp = to_datetime(d[i].timestamp)]]

AppMaxRecords == 5000     \* DataStore(max_records=5000)

\* DataStore.__init__ with max_records one of capacities
StoreInitWith(capacities) ==
    /\ max_records \in capacities
    /\ data = <<>>
    /\ df = <<>>
    /\ added = <<>>

StoreInit == StoreInitWith(0..MaxCapacity)
AppStoreInit == StoreInitWith({AppMaxRecords})

add_tick(tick_data) ==
    /\ data' = DequeAppend(data, tick_data, max_records)
    /\ df' = BuildFrame(data')
    /\ added' = Append(added, tick_data)
    /\ UNCHANGED max_records

clear ==
    /\ data' = <<>>
    /\ df' = <<>>
    /\ added' = <<>>
    /\ UNCHANGED max_records

\* get_latest_price(): None if the frame is empty, else df['price'].iloc[-1]
get_latest_price == IF Len(df) = 0 THEN None ELSE df[Len(df)].price

\* the caller: ticks arrive with increasing timestamps and any of the prices
StoreAdd ==
    /\ Len(added) < MaxAdds
    /\ \E p \in StorePrices : add_tick(Tick(Len(added) + 1, p))
    /\ UNCHANGED <<alert_vars, source_vars, app_vars, caller_vars>>

StoreClear ==
    /\ clear
    /\ UNCHANGED <<alert_vars, source_vars, app_vars, caller_vars>>

StoreNext == StoreAdd \/ StoreClear

----------------------------------------------------------------------------
(* AlertManager                                                            *)

WARNING == "WARNING"
CRITICAL == "CRITICAL"

\* observers are callables; the ones in FailingObservers raise an Exception when called
Observers == {"ok", "bad"}
FailingObservers == {"bad"}

DefaultPriceChangeThreshold == <<2, 1>>
DefaultVolatilityThreshold == <<1, 50>>
DefaultVolatilityCritical == <<1, 20>>
Five == <<5, 1>>
Hundred == <<100, 1>>

\* Alert.__init__; the timestamp is datetime.now(), a logical clock here
Alert(level, message, value, threshold, metric, now) ==
    [level |-> level, message |-> message, value |-> value,
     threshold |-> threshold, metric |-> metric, timestamp |-> now]

Now == Len(raised) + 1

DefaultMaxAlerts == 1000   \* max_alerts: int = 1000

\* AlertManager.__init__ with max_alerts one of caps
AlertInitWith(caps) ==
    /\ max_alerts \in caps
    /\ alerts = <<>>
    /\ callbacks = <<>>
    /\ price_change_threshold = DefaultPriceChangeThreshold
    /\ volatility_threshold = DefaultVolatilityThreshold
    /\ volatility_critical = DefaultVolatilityCritical
    /\ raised = <<>>
    /\ last_call = [op |-> "init", args |-> <<>>, ret |-> NoAlert, notified |-> <<>>]

AlertInit == AlertInitWith(0..MaxAlertCap)
AppAlertInit == AlertInitWith({DefaultMaxAlerts})

add_callback(callback) ==
    /\ callbacks' = Append(callbacks, callback)
    /\ last_call' = [op |-> "add_callback", args |-> <<callback>>, ret |-> NoAlert, notified |-> <<>>]
    /\ UNCHANGED <<max_alerts, alerts, price_change_threshold, volatility_threshold,
                   volatility_critical, raised>>

\* self.alerts.append(alert); if len(self.alerts) > self.max_alerts: self.alerts.pop(0)
RecordAlertPopNewest(hist, alert, cap) ==
    LET a == Append(hist, alert)
    IN  IF Len(a) > cap THEN SubSeq(a, 1, Len(a) - 1) ELSE a
RecordAlert(hist, alert, cap) ==
    LET a == Append(hist, alert)
    IN  IF Len(a) > cap THEN Tail(a) ELSE a

\* the callback loop of _trigger_alert from position i on: a callback that raises
\* is caught and reported, and the loop goes on with the next one
RECURSIVE NotifyStopAtFailure(_, _, _)
NotifyStopAtFailure(cbs, alert, i) ==
    IF i > Len(cbs) THEN [calls |-> <<>>, propagated |-> FALSE]
    ELSE IF cbs[i] \in FailingObservers
         THEN [calls |-> <<[observer |-> cbs[i], alert |-> alert, outcome |-> "raised"]>>,
               propagated |-> TRUE]
         ELSE LET rest == NotifyStopAtFailure(cbs, alert, i + 1)
              IN  [calls |-> <<[observer |-> cbs[i], alert |-> alert, outcome |-> "returned"]>> \o rest.calls,
                   propagated |-> rest.propagated]
RECURSIVE NotifyNewestFirst(_, _, _)
NotifyNewestFirst(cbs, alert, i) ==
    IF i > Len(cbs) THEN [calls |-> <<>>, propagated |-> FALSE]
    ELSE LET rest == NotifyNewestFirst(cbs, alert, i + 1)
             how == IF cbs[i] \in FailingObservers THEN "raised" ELSE "returned"
         IN  [calls |-> rest.calls \o <<[observer |-> cbs[i], alert |-> alert, outcome |-> how]>>,
              propagated |-> FALSE]
RECURSIVE Notify(_, _, _)
Notify(cbs, alert, i) ==
    IF i > Len(cbs) THEN [calls |-> <<>>, propagated |-> FALSE]
    ELSE LET rest == Notify(cbs, alert, i + 1)
             how == IF cbs[i] \in FailingObservers THEN "raised" ELSE "returned"
         IN  [calls |-> <<[observer |-> cbs[i], alert |-> alert, outcome |-> how]>> \o rest.calls,
              propagated |-> rest.propagated]

\* _trigger_alert(alert), called by operation op with arguments args; the operation
\* returns the alert unless an exception propagated out of the callback loop
trigger_alert(alert, op, args) ==
    LET n == Notify(callbacks, alert, 1)
    IN  /\ alerts' = RecordAlert(alerts, alert, max_alerts)
        /\ raised' = Append(raised, alert)
        /\ last_call' = [op |-> op, args |-> args,
                         ret |-> IF n.propagated THEN Raised("Exception") ELSE alert,
                         notified |-> n.calls]
        /\ UNCHANGED <<max_alerts, callbacks, price_change_threshold,
                       volatility_threshold, volatility_critical>>

\* an operation that ends with the exception e before it touches the state
raises(op, args, e) ==
    /\ last_call' = [op |-> op, args |-> args, ret |-> Raised(e), notified |-> <<>>]
    /\ UNCHANGED <<max_alerts, alerts, callbacks, price_change_threshold,
                   volatility_threshold, volatility_critical, raised>>

\* an operation that returns None without raising an alert
no_alert(op, args) ==
    /\ last_call' = [op |-> op, args |-> args, ret |-> NoAlert, notified |-> <<>>]
    /\ UNCHANGED <<max_alerts, alerts, callbacks, price_change_threshold,
                   volatility_threshold, volatility_critical, raised>>

\* ((current_price - previous_price) / previous_price) * 100
PriceChangePct(current_price, previous_price) ==
    IF previous_price = Zero THEN "ZeroDivisionError"
    ELSE RMul(RDiv(RSub(current_price, previous_price), previous_price), Hundred)

\* if previous_price == 0: return None
ZeroPreviousUnguarded(previous_price) == FALSE
ZeroPrevious(previous_price) == previous_price = Zero

PriceLevelAlwaysWarning(pct) == WARNING
PriceLevel(pct) == IF RLt(RAbs(pct), Five) THEN WARNING ELSE CRITICAL

PriceMessage(pct) == <<"Price", IF RGt(pct, Zero) THEN "increased" ELSE "decreased", "by">>

PriceCrossedInclusive(pct, threshold) == ~RLt(RAbs(pct), threshold)
PriceCrossed(pct, threshold) == RGt(RAbs(pct), threshold)

check_price_alert(current_price, previous_price) ==
    LET args == <<current_price, previous_price>>
    IN  IF ZeroPrevious(previous_price)
        THEN no_alert("check_price_alert", args)
        ELSE LET price_change_pct == PriceChangePct(current_price, previous_price)
             IN  IF price_change_pct = "ZeroDivisionError"
                 THEN raises("check_price_alert", args, "ZeroDivisionError")
                 ELSE IF PriceCrossed(price_change_pct, price_change_threshold)
                 THEN trigger_alert(Alert(PriceLevel(price_change_pct),
                                          PriceMessage(price_change_pct),
                                          price_change_pct,
                                          price_change_threshold,
                                          "price_change", Now),
                                    "check_price_alert", args)
                 ELSE no_alert("check_price_alert", args)

VolatilityBranchWarningFirst(volatility, warn, crit) ==
    IF RGt(volatility, warn) THEN WARNING
    ELSE IF RGt(volatility, crit) THEN CRITICAL
    ELSE None
\* which branch of check_volatility_alert is taken
VolatilityBranch(volatility, warn, crit) ==
    IF RGt(volatility, crit) THEN CRITICAL
    ELSE IF RGt(volatility, warn) THEN WARNING
    ELSE None

check_volatility_alert(volatility) ==
    LET args == <<volatility>>
        branch == VolatilityBranch(volatility, volatility_threshold, volatility_critical)
    IN  IF branch = CRITICAL
        THEN trigger_alert(Alert(CRITICAL, <<"CRITICAL: Volatility extremely high at">>,
                                 volatility, volatility_critical, "volatility", Now),
                           "check_volatility_alert", args)
        ELSE IF branch = WARNING
        THEN trigger_alert(Alert(WARNING, <<"Volatility elevated at">>,
                                 volatility, volatility_threshold, "volatility", Now),
                           "check_volatility_alert", args)
        ELSE no_alert("check_volatility_alert", args)

clear_alerts ==
    /\ alerts' = <<>>
    /\ raised' = <<>>
    /\ last_call' = [op |-> "clear_alerts", args |-> <<>>, ret |-> NoAlert, notified |-> <<>>]
    /\ UNCHANGED <<max_alerts, callbacks, price_change_threshold,
                   volatility_threshold, volatility_critical>>

set_thresholdsShifted(price_change, volatility, critical) ==
    /\ price_change_threshold' = IF price_change # None THEN price_change ELSE price_change_threshold
    /\ volatility_threshold' = IF volatility # None THEN volatility ELSE volatility_threshold
    /\ volatility_critical' = IF volatility # None THEN volatility ELSE volatility_critical
    /\ last_call' = [op |-> "set_thresholds", args |-> <<price_change, volatility, critical>>,
                     ret |-> NoAlert, notified |-> <<>>]
    /\ UNCHANGED <<max_alerts, alerts, callbacks, raised>>
set_thresholds(price_change, volatility, critical) ==
    /\ price_change_threshold' = IF price_change # None THEN price_change ELSE price_change_threshold
    /\ volatility_threshold' = IF volatility # None THEN volatility ELSE volatility_threshold
    /\ volatility_critical' = IF critical # None THEN critical ELSE volatility_critical
    /\ last_call' = [op |-> "set_thresholds", args |-> <<price_change, volatility, critical>>,
                     ret |-> NoAlert, notified |-> <<>>]
    /\ UNCHANGED <<max_alerts, alerts, callbacks, raised>>

\* ---- the callers of the AlertManager: inputs tried ------------------------
CurrentPrices == {<<201, 2>>, <<102, 1>>, <<103, 1>>, <<95, 1>>, <<110, 1>>}
PreviousPrices == {<<0, 1>>, <<100, 1>>}
Volatilities == {<<1, 50>>, <<3, 100>>, <<3, 50>>}
PriceThresholds == {None, <<6, 1>>}
WarningThresholds == {None, <<1, 25>>}
CriticalThresholds == {None, <<1, 40>>}

AlertAddCallback ==
    /\ Len(callbacks) < MaxObservers
    /\ \E o \in Observers : add_callback(o)
    /\ UNCHANGED <<store_vars, source_vars, app_vars, caller_vars>>

AlertCheckPrice ==
    /\ Len(raised) < MaxRaised
    /\ \E c \in CurrentPrices, p \in PreviousPrices : check_price_alert(c, p)
    /\ UNCHANGED <<store_vars, source_vars, app_vars, caller_vars>>

AlertCheckVolatility ==
    /\ Len(raised) < MaxRaised
    /\ \E v \in Volatilities : check_volatility_alert(v)
    /\ UNCHANGED <<store_vars, source_vars, app_vars, caller_vars>>

AlertClear ==
    /\ clear_alerts
    /\ UNCHANGED <<store_vars, source_vars, app_vars, caller_vars>>

ConfigCheckPrice ==
    /\ Len(raised) < MaxRaisedCfg
    /\ \E c \in CurrentPrices, p \in PreviousPrices : check_price_alert(c, p)
    /\ UNCHANGED <<store_vars, source_vars, app_vars, caller_vars>>

ConfigCheckVolatility ==
    /\ Len(raised) < MaxRaisedCfg
    /\ \E v \in Volatilities : check_volatility_alert(v)
    /\ UNCHANGED <<store_vars, source_vars, app_vars, caller_vars>>

AlertSetThresholds ==
    /\ \E pc \in PriceThresholds, v \in WarningThresholds, vc \in CriticalThresholds :
           set_thresholds(pc, v, vc)
    /\ UNCHANGED <<store_vars, source_vars, app_vars, caller_vars>>

\* observers, checks and the history under the default thresholds
AlertNext ==
    \/ AlertAddCallback
    \/ AlertCheckPrice
    \/ AlertCheckVolatility
    \/ AlertClear

\* checks under thresholds that the configuration surface changes at any time
ThresholdNext ==
    \/ AlertAddCallback
    \/ AlertSetThresholds
    \/ ConfigCheckPrice
    \/ ConfigCheckVolatility
    \/ AlertClear

----------------------------------------------------------------------------
(* Tick sources: MockWebSocketClient and BinanceWebSocketClient            *)

NoClient == [none |-> TRUE]

DefaultInterval == 10          \* interval: float = 1.0
FactoryLiveInterval == 5       \* BinanceWebSocketClient(..., interval=0.5)
StartPrice == <<45000, 1>>     \* self.current_price = 45000.0
PriceFloorZero == Zero
PriceFloor == <<100, 1>>       \* max(self.current_price, 100)
VolumeLow == <<10, 1>>         \* random.uniform(10, 500)
VolumeHigh == <<500, 1>>
RecvTimeout == 300             \* asyncio.wait_for(websocket.recv(), timeout=30)

Intervals == {FactoryLiveInterval, DefaultInterval}

\* random.gauss(0, 50): any real step; the steps tried
Steps == {<<-45000, 1>>, <<0, 1>>, <<1, 8>>}
\* random.uniform(10, 500): the volumes tried
Volumes == {VolumeLow, <<2001, 8>>, VolumeHigh}

\* str.upper on the symbols in use
Upper(sym) == CASE sym = "btcusdt" -> "BTCUSDT"
                [] sym = "BTC/USD" -> "BTC/USD"
                [] OTHER -> sym

\* MockWebSocketClient.__init__
MockWebSocketClient(symbol, interval) ==
    [symbol |-> symbol, interval |-> interval, is_connected |-> FALSE,
     current_price |-> StartPrice, price_change |-> Zero]

\* BinanceWebSocketClient.__init__
BinanceWebSocketClient(symbol, interval) ==
    [symbol |-> symbol, interval |-> interval, is_connected |-> FALSE]

\* the client built on a connection failure of the live adapter
FallbackClient(live) == MockWebSocketClient(Upper(live.symbol), DefaultInterval)

\* the trade messages of the feed: T in milliseconds, p and q as decimal strings
Messages == {[T |-> 100 * t, p |-> ps, q |-> "0.25"] : t \in {7}, ps \in {"45000.5", "44000"}}

\* float() on the decimal strings of the feed
ParseFloat(str) == CASE str = "45000.5" -> <<90001, 2>>
                     [] str = "44000" -> <<44000, 1>>
                     [] str = "0.25" -> <<1, 4>>

\* datetime.fromtimestamp(T / 1000).isoformat()
FromTimestampMs(T) == <<"iso", T \div 100>>

\* datetime.now().isoformat()
NowIso == <<"iso", clock>>

\* the source object: a mock client with one of mock_intervals or a live adapter
\* with one of live_intervals
SourceInitWith(mock_intervals, live_intervals) ==
    /\ \/ \E i \in mock_intervals :
             /\ mock = MockWebSocketClient("BTC/USD", i)
             /\ binance = NoClient
       \/ \E i \in live_intervals :
             /\ binance = BinanceWebSocketClient("btcusdt", i)
             /\ mock = NoClient
    /\ b_pc = "idle"
    /\ m_pc = "idle"
    /\ ws = "none"
    /\ last_recv = "none"
    /\ delivered = <<>>
    /\ clock = 0
    /\ outcome = "not_called"

SourceInit == SourceInitWith(Intervals, Intervals)
\* get_websocket_client(use_mock=True, symbol="BTC/USD")
AppSourceInit == SourceInitWith({DefaultInterval}, {})

\* ---- MockWebSocketClient.stream_data -------------------------------------

\* stream_data is called on the mock client: await self.connect()
MockStart ==
    /\ binance = NoClient
    /\ m_pc = "idle"
    /\ mock' = [mock EXCEPT !.is_connected = TRUE]
    /\ m_pc' = "loop"
    /\ outcome' = "running"
    /\ UNCHANGED <<binance, b_pc, ws, last_recv, delivered, clock>>

\* one pass of the while loop up to the sleep: random walk step, clamp, tick, callback;
\* at most limit ticks, the step and the volume drawn from steps and volumes
MockTickWith(limit, steps, volumes) ==
    /\ m_pc = "loop"
    /\ mock.is_connected
    /\ Len(delivered) < limit
    /\ \E step \in steps, vol \in volumes :
          LET current_price == RMax(RAdd(mock.current_price, step), PriceFloor)
              tick_data == [symbol |-> mock.symbol,
                            timestamp |-> NowIso,
                            price |-> Round2(current_price),
                            volume |-> Round2(vol)]
          IN  /\ mock' = [mock EXCEPT !.price_change = step, !.current_price = current_price]
              /\ delivered' = Append(delivered, tick_data)
    /\ m_pc' = "sleep"
    /\ UNCHANGED <<binance, b_pc, ws, last_recv, clock, outcome>>

MockTick == MockTickWith(MaxTicks, Steps, Volumes)

\* await asyncio.sleep(self.interval) completes
MockSleep ==
    /\ m_pc = "sleep"
    /\ clock + mock.interval <= MaxClock
    /\ clock' = clock + mock.interval
    /\ m_pc' = "loop"
    /\ UNCHANGED <<binance, mock, b_pc, ws, last_recv, delivered, outcome>>

\* the while condition is false: finally: await self.disconnect(); the call returns
MockExit ==
    /\ m_pc = "loop"
    /\ ~mock.is_connected
    /\ mock' = [mock EXCEPT !.is_connected = FALSE]
    /\ m_pc' = "done"
    /\ outcome' = IF binance = NoClient THEN "returned" ELSE outcome
    /\ UNCHANGED <<binance, b_pc, ws, last_recv, delivered, clock>>

\* ---- BinanceWebSocketClient.stream_data ----------------------------------

\* stream_data is called on the live adapter: await self.connect()
BinanceStart ==
    /\ binance # NoClient
    /\ b_pc = "idle"
    /\ binance' = [binance EXCEPT !.is_connected = TRUE]
    /\ b_pc' = "connect"
    /\ outcome' = "running"
    /\ UNCHANGED <<mock, m_pc, ws, last_recv, delivered, clock>>

\* websockets.connect(self.url) succeeds
BinanceConnected ==
    /\ b_pc = "connect"
    /\ ws' = "open"
    /\ b_pc' = "loop"
    /\ UNCHANGED <<binance, mock, m_pc, last_recv, delivered, clock, outcome>>

\* websockets.connect(self.url) raises: the outer except builds the mock client and
\* awaits its stream_data, which starts with connect()
BinanceConnectFails ==
    /\ b_pc = "connect"
    /\ ws' = "failed"
    /\ mock' = [FallbackClient(binance) EXCEPT !.is_connected = TRUE]
    /\ m_pc' = "loop"
    /\ b_pc' = "fallback"
    /\ UNCHANGED <<binance, last_recv, delivered, clock, outcome>>

\* while self.is_connected holds: await asyncio.wait_for(websocket.recv(), timeout=30)
BinanceAwaitRecv ==
    /\ b_pc = "loop"
    /\ binance.is_connected
    /\ b_pc' = "recv"
    /\ UNCHANGED <<binance, mock, m_pc, ws, last_recv, delivered, clock, outcome>>

\* the feed drops while the connection is established
FeedDrops ==
    /\ ws = "open"
    /\ b_pc \in {"recv", "sleep"}
    /\ ws' = "dropped"
    /\ UNCHANGED <<binance, mock, b_pc, m_pc, last_recv, delivered, clock, outcome>>

\* recv() returns a well-formed trade: parse, callback, then the throttling sleep
BinanceMessage ==
    /\ b_pc = "recv"
    /\ ws = "open"
    /\ Len(delivered) < MaxTicks
    /\ \E msg \in Messages :
          LET tick_data == [symbol |-> Upper(binance.symbol),
                            timestamp |-> FromTimestampMs(msg.T),
                            price |-> ParseFloat(msg.p),
                            volume |-> ParseFloat(msg.q)]
          IN  delivered' = Append(delivered, tick_data)
    /\ last_recv' = "message"
    /\ b_pc' = "sleep"
    /\ UNCHANGED <<binance, mock, m_pc, ws, clock, outcome>>

BinanceTimeoutEndsStream ==
    /\ b_pc = "recv"
    /\ ws = "open"
    /\ clock + RecvTimeout <= MaxClock
    /\ clock' = clock + RecvTimeout
    /\ last_recv' = "timeout"
    /\ ws' = "closed"
    /\ binance' = [binance EXCEPT !.is_connected = FALSE]
    /\ b_pc' = "done"
    /\ outcome' = "returned"
    /\ UNCHANGED <<mock, m_pc, delivered>>
\* no message within 30 seconds: asyncio.TimeoutError is caught, the loop goes on
BinanceTimeout ==
    /\ b_pc = "recv"
    /\ ws = "open"
    /\ clock + RecvTimeout <= MaxClock
    /\ clock' = clock + RecvTimeout
    /\ last_recv' = "timeout"
    /\ b_pc' = "loop"
    /\ UNCHANGED <<binance, mock, m_pc, ws, delivered, outcome>>

\* recv() returns text that json.loads rejects (JSONDecodeError) or a JSON object
\* without the trade fields (KeyError): caught, the loop goes on
BinanceMalformed ==
    /\ b_pc = "recv"
    /\ ws = "open"
    /\ \E e \in {"JSONDecodeError", "KeyError"} : last_recv' = e
    /\ b_pc' = "loop"
    /\ UNCHANGED <<binance, mock, m_pc, ws, delivered, clock, outcome>>

\* recv() on the dropped connection raises ConnectionClosed: the inner
\* except Exception catches it and the loop goes on
BinanceRecvOnDropped ==
    /\ b_pc = "recv"
    /\ ws = "dropped"
    /\ last_recv' = "ConnectionClosed"
    /\ b_pc' = "loop"
    /\ UNCHANGED <<binance, mock, m_pc, ws, delivered, clock, outcome>>

\* await asyncio.sleep(self.interval) completes
BinanceSleep ==
    /\ b_pc = "sleep"
    /\ clock + binance.interval <= MaxClock
    /\ clock' = clock + binance.interval
    /\ b_pc' = "loop"
    /\ UNCHANGED <<binance, mock, m_pc, ws, last_recv, delivered, outcome>>

\* the while condition is false: the async with closes the websocket,
\* finally: await self.disconnect(); the call returns
BinanceExit ==
    /\ b_pc = "loop"
    /\ ~binance.is_connected
    /\ ws' = "closed"
    /\ binance' = [binance EXCEPT !.is_connected = FALSE]
    /\ b_pc' = "done"
    /\ outcome' = "returned"
    /\ UNCHANGED <<mock, m_pc, last_recv, delivered, clock>>

\* the fallback's stream_data has returned: finally: await self.disconnect()
BinanceFallbackReturns ==
    /\ b_pc = "fallback"
    /\ m_pc = "done"
    /\ binance' = [binance EXCEPT !.is_connected = FALSE]
    /\ b_pc' = "done"
    /\ outcome' = "returned"
    /\ UNCHANGED <<mock, m_pc, ws, last_recv, delivered, clock>>

\* ---- the owner of the source ---------------------------------------------

DisconnectToggles ==
    /\ IF binance # NoClient
       THEN /\ binance' = [binance EXCEPT !.is_connected = ~binance.is_connected]
            /\ mock' = mock
       ELSE /\ mock' = [mock EXCEPT !.is_connected = ~mock.is_connected]
            /\ binance' = binance
    /\ UNCHANGED <<b_pc, m_pc, ws, last_recv, delivered, clock, outcome>>
\* disconnect() is called on the source object the owner holds
Disconnect ==
    /\ IF binance # NoClient
       THEN /\ binance' = [binance EXCEPT !.is_connected = FALSE]
            /\ mock' = mock
       ELSE /\ mock' = [mock EXCEPT !.is_connected = FALSE]
            /\ binance' = binance
    /\ UNCHANGED <<b_pc, m_pc, ws, last_recv, delivered, clock, outcome>>

CancelSkipsDisconnect ==
    /\ outcome = "running"
    /\ \/ /\ m_pc = "sleep"
          /\ m_pc' = "done"
          /\ outcome' = IF binance = NoClient THEN "returned" ELSE outcome
          /\ UNCHANGED <<binance, mock, b_pc, ws>>
       \/ /\ b_pc \in {"connect", "recv", "sleep"}
          /\ b_pc' = "done"
          /\ ws' = IF ws \in {"open", "dropped"} THEN "closed" ELSE ws
          /\ outcome' = "cancelled"
          /\ UNCHANGED <<binance, mock, m_pc>>
    /\ UNCHANGED <<last_recv, delivered, clock>>
\* the task running stream_data is cancelled while it is suspended.  In the mock
\* loop CancelledError is caught and stream_data returns after disconnect(); in
\* the live adapter no except clause matches it (it is a BaseException), the
\* async with closes the websocket, finally runs disconnect() and it propagates.
Cancel ==
    /\ outcome = "running"
    /\ \/ /\ m_pc = "sleep"
          /\ mock' = [mock EXCEPT !.is_connected = FALSE]
          /\ m_pc' = "done"
          /\ outcome' = IF binance = NoClient THEN "returned" ELSE outcome
          /\ UNCHANGED <<binance, b_pc, ws>>
       \/ /\ b_pc \in {"connect", "recv", "sleep"}
          /\ binance' = [binance EXCEPT !.is_connected = FALSE]
          /\ b_pc' = "done"
          /\ ws' = IF ws \in {"open", "dropped"} THEN "closed" ELSE ws
          /\ outcome' = "cancelled"
          /\ UNCHANGED <<mock, m_pc>>
    /\ UNCHANGED <<last_recv, delivered, clock>>

SourceNext ==
    \/ (MockStart /\ UNCHANGED <<store_vars, alert_vars, app_vars, caller_vars>>)
    \/ (MockTick /\ UNCHANGED <<store_vars, alert_vars, app_vars, caller_vars>>)
    \/ (MockSleep /\ UNCHANGED <<store_vars, alert_vars, app_vars, caller_vars>>)
    \/ (MockExit /\ UNCHANGED <<store_vars, alert_vars, app_vars, caller_vars>>)
    \/ (BinanceStart /\ UNCHANGED <<store_vars, alert_vars, app_vars, caller_vars>>)
    \/ (BinanceConnected /\ UNCHANGED <<store_vars, alert_vars, app_vars, caller_vars>>)
    \/ (BinanceConnectFails /\ UNCHANGED <<store_vars, alert_vars, app_vars, caller_vars>>)
    \/ (BinanceAwaitRecv /\ UNCHANGED <<store_vars, alert_vars, app_vars, caller_vars>>)
    \/ (FeedDrops /\ UNCHANGED <<store_vars, alert_vars, app_vars, caller_vars>>)
    \/ (BinanceMessage /\ UNCHANGED <<store_vars, alert_vars, app_vars, caller_vars>>)
    \/ (BinanceTimeout /\ UNCHANGED <<store_vars, alert_vars, app_vars, caller_vars>>)
    \/ (BinanceMalformed /\ UNCHANGED <<store_vars, alert_vars, app_vars, caller_vars>>)
    \/ (BinanceRecvOnDropped /\ UNCHANGED <<store_vars, alert_vars, app_vars, caller_vars>>)
    \/ (BinanceSleep /\ UNCHANGED <<store_vars, alert_vars, app_vars, caller_vars>>)
    \/ (BinanceExit /\ UNCHANGED <<store_vars, alert_vars, app_vars, caller_vars>>)
    \/ (BinanceFallbackReturns /\ UNCHANGED <<store_vars, alert_vars, app_vars, caller_vars>>)
    \/ (Disconnect /\ UNCHANGED <<store_vars, alert_vars, app_vars, caller_vars>>)
    \/ (Cancel /\ UNCHANGED <<store_vars, alert_vars, app_vars, caller_vars>>)

----------------------------------------------------------------------------
(* Specifications: each component driven by its callers                    *)

\* the component under study in every configuration tried, the other two as the
\* dashboard builds them
\* initialize_session_state: previous_price = None; no callback is running
AppInit ==
    /\ session_previous_price = None
    /\ callback_pc = "idle"

NoResult == [none |-> TRUE]
\* no reader result is held and no thread is inside the AlertManager
ThreadsInit ==
    /\ held = NoResult
    /\ checker = [pc |-> "idle", volatility |-> None, critical_read |-> None,
                  warning_read |-> None, configurations |-> {}, ret |-> NoAlert, calls |-> 0]
    /\ setter = [pc |-> "idle", args |-> <<None, None, None>>, before |-> <<>>, calls |-> 0]

\* ... and no QuantAnalytics call has been made
CallerInit ==
    /\ ThreadsInit
    /\ analytics = [op |-> "none", prices |-> <<>>, window |-> 0, result |-> None]

InitStore == StoreInit /\ AppAlertInit /\ AppSourceInit /\ AppInit /\ CallerInit
InitAlerts == AppStoreInit /\ AlertInit /\ AppSourceInit /\ AppInit /\ CallerInit
InitSource == AppStoreInit /\ AppAlertInit /\ SourceInit /\ AppInit /\ CallerInit

SpecStore == InitStore /\ [][StoreNext]_vars
SpecAlerts == InitAlerts /\ [][AlertNext]_vars
SpecThresholds == InitAlerts /\ [][ThresholdNext]_vars
SpecSource == InitSource /\ [][SourceNext]_vars

----------------------------------------------------------------------------
(* The pipeline: a source's stream_data with data_stream_callback as its   *)
(* callback                                                                *)

\* floor of the square root of a natural number
ISqrt(n) == CHOOSE k \in 0..n : k * k <= n /\ (k + 1) * (k + 1) > n

\* the square root as a float holds it, to three decimal places
Sqrt3(x) == Rat(ISqrt(((x[1] * 1000) \div x[2]) * 1000), 1000)

\* the sum of xs[lo..hi], by halves
RECURSIVE RSumRange(_, _, _)
RSumRange(xs, lo, hi) ==
    IF lo > hi THEN Zero
    ELSE IF lo = hi THEN xs[lo]
    ELSE LET mid == (lo + hi) \div 2
         IN  RAdd(RSumRange(xs, lo, mid), RSumRange(xs, mid + 1, hi))
RSum(xs) == RSumRange(xs, 1, Len(xs))

\* Series.std(): the sample standard deviation (ddof = 1), NaN for fewer than two values
Std(xs) ==
    LET n == Len(xs)
        sum == RSum(xs)
        squares == RSum(SubSeq([i \in 1..n |-> RMul(xs[i], xs[i])], 1, n))
    IN  IF n < 2 THEN NaN
        ELSE Sqrt3(RDiv(RSub(RMul(<<n, 1>>, squares), RMul(sum, sum)), <<n * (n - 1), 1>>))

\* prices.pct_change().dropna(), or an empty Series for fewer than two prices
calculate_simple_returns(prices) ==
    IF Len(prices) < 2 THEN <<>>
    ELSE SubSeq([i \in 1..(Len(prices) - 1) |->
                    RDiv(RSub(prices[i + 1], prices[i]), prices[i])], 1, Len(prices) - 1)

VolatilityWindow == 20    \* window: int = 20

\* calculate_volatility(prices, window): 0.0 below the window, else the std of the
\* last window returns (of all of them when there are fewer)
calculate_volatilityUnguarded(prices, window) ==
    LET returns == calculate_simple_returns(prices)
    IN  IF Len(returns) < window THEN Std(returns)
        ELSE Std(DataFrameTail(returns, window))
calculate_volatility(prices, window) ==
    IF Len(prices) < window THEN Zero
    ELSE LET returns == calculate_simple_returns(prices)
         IN  IF Len(returns) < window THEN Std(returns)
             ELSE Std(DataFrameTail(returns, window))

\* prices.rolling(window=window, min_periods=1).mean(): entry i is the mean of the
\* entries i-window+1..i that exist
RollingMean(prices, window) ==
    SubSeq([i \in 1..Len(prices) |->
               LET first == IF i - window + 1 < 1 THEN 1 ELSE i - window + 1
               IN  RDiv(RSum(SubSeq(prices, first, i)), <<i - first + 1, 1>>)],
           1, Len(prices))

\* calculate_moving_average(prices, window): an empty Series below the window
calculate_moving_averageEmptyAtWindow(prices, window) ==
    IF Len(prices) <= window THEN <<>> ELSE RollingMean(prices, window)
calculate_moving_average(prices, window) ==
    IF Len(prices) < window THEN <<>> ELSE RollingMean(prices, window)

\* df['price']
PriceColumn(frame) == SubSeq([i \in 1..Len(frame) |-> frame[i].price], 1, Len(frame))

MinRowsForVolatility == 10    \* if len(df) > 10

\* await callback(tick_data): the tick handed over is the one just built
CallbackTickOldest(ticks) == ticks[1]
CallbackTick(ticks) == ticks[Len(ticks)]

\* data_stream_callback up to the update of previous_price: add_tick, then the
\* price check against previous_price when there is one
CallbackIngestSetsPreviousFirst(tick_data) ==
    /\ add_tick(tick_data)
    /\ check_price_alert(tick_data.price, tick_data.price)
    /\ session_previous_price' = tick_data.price
    /\ callback_pc' = "volatility"
    /\ UNCHANGED caller_vars
CallbackIngest(tick_data) ==
    /\ add_tick(tick_data)
    /\ IF session_previous_price # None
       THEN check_price_alert(tick_data.price, session_previous_price)
       ELSE UNCHANGED alert_vars
    /\ session_previous_price' = tick_data.price
    /\ callback_pc' = "volatility"
    /\ UNCHANGED caller_vars

\* the rest of data_stream_callback: df = get_all(); if len(df) > 10: the volatility
\* of df['price'] goes to check_volatility_alert. The callback has no await of its
\* own, so nothing else runs between its two halves.
CallbackVolatility ==
    /\ callback_pc = "volatility"
    /\ LET frame == IF Len(df) > 0 THEN df ELSE <<>>
       IN  IF Len(frame) > MinRowsForVolatility
           THEN check_volatility_alert(calculate_volatility(PriceColumn(frame), VolatilityWindow))
           ELSE UNCHANGED alert_vars
    /\ callback_pc' = "idle"
    /\ UNCHANGED <<store_vars, source_vars, session_previous_price, caller_vars>>

\* the steps and the volume the mock source draws in a pipeline run
PipeSteps == {<<-45000, 1>>, Zero}
PipeMoves == IF mock.current_price = StartPrice THEN 0 ELSE 1
PipeVolumes == {VolumeLow}

\* a pass of the mock loop with data_stream_callback as the callback
PipeMockTick ==
    /\ callback_pc = "idle"
    /\ MockTickWith(MaxPipeTicks, {st \in PipeSteps : st # Zero => PipeMoves < MaxMoves},
                    PipeVolumes)
    /\ CallbackIngest(CallbackTick(delivered'))

\* a trade message of the live feed with data_stream_callback as the callback
PipeBinanceMessage ==
    /\ callback_pc = "idle"
    /\ BinanceMessage
    /\ CallbackIngest(CallbackTick(delivered'))

\* a step of the source that calls no callback, taken while none is running
PipeSource(A) ==
    /\ callback_pc = "idle"
    /\ A
    /\ UNCHANGED <<store_vars, alert_vars, app_vars, caller_vars>>

\* the sidebar's sliders: their minimum values and their initial values
PipeSliders == {<<(<<1, 10>>), (<<1, 1000>>), (<<1, 100>>)>>,
                <<(<<2, 1>>), (<<1, 50>>), (<<1, 20>>)>>}

\* a run of the script between two ticks: set_thresholds with the slider values
PipeSetThresholds ==
    /\ callback_pc = "idle"
    /\ \E sliders \in PipeSliders : set_thresholds(sliders[1], sliders[2], sliders[3])
    /\ UNCHANGED <<store_vars, source_vars, app_vars, caller_vars>>

PipelineNext ==
    \/ PipeSource(MockStart)
    \/ PipeMockTick
    \/ PipeSource(MockSleep)
    \/ PipeSource(MockExit)
    \/ PipeSource(BinanceStart)
    \/ PipeSource(BinanceConnected)
    \/ PipeSource(BinanceConnectFails)
    \/ PipeSource(BinanceAwaitRecv)
    \/ PipeSource(FeedDrops)
    \/ PipeBinanceMessage
    \/ PipeSource(BinanceTimeout)
    \/ PipeSource(BinanceMalformed)
    \/ PipeSource(BinanceRecvOnDropped)
    \/ PipeSource(BinanceSleep)
    \/ PipeSource(BinanceExit)
    \/ PipeSource(BinanceFallbackReturns)
    \/ PipeSource(Disconnect)
    \/ PipeSource(Cancel)
    \/ CallbackVolatility
    \/ PipeSetThresholds

\* the session's store with a small or the application's capacity, the default
\* alert manager, and the source get_websocket_client builds
InitPipeline ==
    /\ StoreInitWith({MaxCapacity, AppMaxRecords})
    /\ AppAlertInit
    /\ SourceInitWith({DefaultInterval}, {FactoryLiveInterval})
    /\ AppInit
    /\ CallerInit
SpecPipeline == InitPipeline /\ [][PipelineNext]_vars

----------------------------------------------------------------------------
(* QuantAnalytics called on its own: a price series and a window are       *)
(* chosen, then the functions are applied to them                          *)

AnalyticsPrices == {<<100, 1>>, <<200, 1>>, <<400, 1>>}

\* the price series of at most MaxPrices prices
PriceSeries == UNION {[1..n -> AnalyticsPrices] : n \in 0..MaxPrices}

AnalyticsMovingAverage ==
    /\ analytics' = [analytics EXCEPT
                       !.op = "calculate_moving_average",
                       !.result = calculate_moving_average(analytics.prices, analytics.window)]
    /\ UNCHANGED <<store_vars, alert_vars, source_vars, app_vars, held, checker, setter>>

AnalyticsVolatility ==
    /\ analytics' = [analytics EXCEPT
                       !.op = "calculate_volatility",
                       !.result = calculate_volatility(analytics.prices, analytics.window)]
    /\ UNCHANGED <<store_vars, alert_vars, source_vars, app_vars, held, checker, setter>>

AnalyticsNext == AnalyticsMovingAverage \/ AnalyticsVolatility

InitAnalytics ==
    /\ AppStoreInit /\ AppAlertInit /\ AppSourceInit /\ AppInit /\ ThreadsInit
    /\ \E prices \in PriceSeries, window \in 1..MaxWindow :
          analytics = [op |-> "none", prices |-> prices, window |-> window, result |-> None]
SpecAnalytics == InitAnalytics /\ [][AnalyticsNext]_vars

----------------------------------------------------------------------------
(* check_volatility_alert and set_thresholds called from two threads: the  *)
(* AlertManager takes no lock, so each read and each write of a threshold  *)
(* is a step of its own                                                    *)

ConcurrentVolatilities == {<<3, 100>>, <<3, 50>>}
\* the argument triples tried, in a list
ConcurrentSettings == << <<None, (<<1, 100>>), (<<1, 50>>)>>, <<None, None, (<<1, 40>>)>> >>

\* the warning and critical thresholds as a pair
Configuration == <<volatility_threshold, volatility_critical>>

\* check_volatility_alert(volatility) is entered
CheckerCall ==
    /\ checker.pc = "idle"
    /\ checker.calls < MaxChecks
    /\ \E v \in ConcurrentVolatilities :
          checker' = [pc |-> "if_critical", volatility |-> v, critical_read |-> None,
                      warning_read |-> None,
                      configurations |-> IF setter.pc = "idle" THEN {Configuration}
                                         ELSE {setter.before},
                      ret |-> NoAlert, calls |-> checker.calls + 1]
    /\ UNCHANGED <<store_vars, alert_vars, source_vars, app_vars, held, setter, analytics>>

\* if volatility > self.volatility_critical:
CheckerIfCritical ==
    /\ checker.pc = "if_critical"
    /\ checker' = [checker EXCEPT
                     !.critical_read = volatility_critical,
                     !.pc = IF RGt(checker.volatility, volatility_critical)
                            THEN "critical_alert" ELSE "elif_warning"]
    /\ UNCHANGED <<store_vars, alert_vars, source_vars, app_vars, held, setter, analytics>>

\* alert = Alert(level=CRITICAL, ..., threshold=self.volatility_critical, ...);
\* self._trigger_alert(alert); return alert
CheckerCriticalAlert ==
    /\ checker.pc = "critical_alert"
    /\ LET alert == Alert(CRITICAL, <<"CRITICAL: Volatility extremely high at">>,
                          checker.volatility, volatility_critical, "volatility", Now)
       IN  /\ trigger_alert(alert, "check_volatility_alert", <<checker.volatility>>)
           /\ checker' = [checker EXCEPT !.pc = "idle", !.ret = alert]
    /\ UNCHANGED <<store_vars, source_vars, app_vars, held, setter, analytics>>

\* elif volatility > self.volatility_threshold: ... return None when it is not
CheckerElifWarning ==
    /\ checker.pc = "elif_warning"
    /\ IF RGt(checker.volatility, volatility_threshold)
       THEN /\ checker' = [checker EXCEPT !.warning_read = volatility_threshold,
                                          !.pc = "warning_alert"]
            /\ UNCHANGED alert_vars
       ELSE /\ checker' = [checker EXCEPT !.warning_read = volatility_threshold,
                                          !.pc = "idle"]
            /\ no_alert("check_volatility_alert", <<checker.volatility>>)
    /\ UNCHANGED <<store_vars, source_vars, app_vars, held, setter, analytics>>

\* alert = Alert(level=WARNING, ..., threshold=self.volatility_threshold, ...);
\* self._trigger_alert(alert); return alert
CheckerWarningAlert ==
    /\ checker.pc = "warning_alert"
    /\ LET alert == Alert(WARNING, <<"Volatility elevated at">>,
                          checker.volatility, volatility_threshold, "volatility", Now)
       IN  /\ trigger_alert(alert, "check_volatility_alert", <<checker.volatility>>)
           /\ checker' = [checker EXCEPT !.pc = "idle", !.ret = alert]
    /\ UNCHANGED <<store_vars, source_vars, app_vars, held, setter, analytics>>

\* set_thresholds(price_change, volatility, critical) is entered
SetterCall ==
    /\ setter.pc = "idle"
    /\ setter.calls < MaxSets
    /\ \E i \in 1..Len(ConcurrentSettings) :
          setter' = [pc |-> "price_change", args |-> ConcurrentSettings[i], before |-> Configuration,
                     calls |-> setter.calls + 1]
    /\ UNCHANGED <<store_vars, alert_vars, source_vars, app_vars, held, checker, analytics>>

\* if price_change is not None: self.price_change_threshold = price_change
SetterPriceChange ==
    /\ setter.pc = "price_change"
    /\ price_change_threshold' = IF setter.args[1] # None THEN setter.args[1]
                                 ELSE price_change_threshold
    /\ setter' = [setter EXCEPT !.pc = "volatility"]
    /\ UNCHANGED <<max_alerts, alerts, callbacks, volatility_threshold, volatility_critical,
                   raised, last_call>>
    /\ UNCHANGED <<store_vars, source_vars, app_vars, held, checker, analytics>>

\* if volatility is not None: self.volatility_threshold = volatility
SetterVolatility ==
    /\ setter.pc = "volatility"
    /\ volatility_threshold' = IF setter.args[2] # None THEN setter.args[2]
                               ELSE volatility_threshold
    /\ setter' = [setter EXCEPT !.pc = "critical"]
    /\ UNCHANGED <<max_alerts, alerts, callbacks, price_change_threshold, volatility_critical,
                   raised, last_call>>
    /\ UNCHANGED <<store_vars, source_vars, app_vars, held, checker, analytics>>

\* if critical is not None: self.volatility_critical = critical; the call returns,
\* and a check in progress has now run across one more configuration
SetterCritical ==
    /\ setter.pc = "critical"
    /\ volatility_critical' = IF setter.args[3] # None THEN setter.args[3]
                              ELSE volatility_critical
    /\ setter' = [setter EXCEPT !.pc = "idle"]
    /\ checker' = IF checker.pc = "idle" THEN checker
                  ELSE [checker EXCEPT !.configurations =
                            @ \cup {<<volatility_threshold, volatility_critical'>>}]
    /\ UNCHANGED <<max_alerts, alerts, callbacks, price_change_threshold, volatility_threshold,
                   raised, last_call>>
    /\ UNCHANGED <<store_vars, source_vars, app_vars, held, analytics>>

ConcurrentNext ==
    \/ CheckerCall
    \/ CheckerIfCritical
    \/ CheckerCriticalAlert
    \/ CheckerElifWarning
    \/ CheckerWarningAlert
    \/ SetterCall
    \/ SetterPriceChange
    \/ SetterVolatility
    \/ SetterCritical

InitConcurrent == AppStoreInit /\ AppAlertInit /\ AppSourceInit /\ AppInit /\ CallerInit
SpecConcurrent == InitConcurrent /\ [][ConcurrentNext]_vars

----------------------------------------------------------------------------
(* Readers of the DataStore and of the AlertManager, and what a caller     *)
(* does with the result it was handed                                      *)

\* x.copy() on a DataFrame or a list: a new object holding the contents of x;
\* the result names the object the returned contents live in
CopyShared(object) == object
Copy(object) == "fresh"

\* the call op(args) returns value, held in object
Returned(op, args, value, object) ==
    held' = [op |-> op, args |-> args, returned |-> value, value |-> value,
             object |-> object, edits |-> 0]

\* DataStore.get_latest(n): pd.DataFrame() when empty, else self.df.tail(n).copy();
\* tail(n) is a slice of the data of self.df
get_latest(n) ==
    /\ IF Len(df) = 0
       THEN Returned("get_latest", <<n>>, <<>>, "fresh")
       ELSE Returned("get_latest", <<n>>, DataFrameTail(df, n), Copy("df"))
    /\ UNCHANGED store_vars

\* DataStore.get_all(): self.df.copy() if len(self.df) > 0 else pd.DataFrame()
get_all ==
    /\ IF Len(df) > 0
       THEN Returned("get_all", <<>>, df, Copy("df"))
       ELSE Returned("get_all", <<>>, <<>>, "fresh")
    /\ UNCHANGED store_vars

\* AlertManager.get_recent_alerts(n): self.alerts[-n:] if len(self.alerts) > 0 else []
get_recent_alerts(n) ==
    /\ IF Len(alerts) > 0
       THEN Returned("get_recent_alerts", <<n>>, SliceLast(alerts, n), "fresh")
       ELSE Returned("get_recent_alerts", <<n>>, <<>>, "fresh")
    /\ UNCHANGED alert_vars

\* AlertManager.get_all_alerts(): self.alerts.copy()
get_all_alerts ==
    /\ Returned("get_all_alerts", <<>>, alerts, Copy("alerts"))
    /\ UNCHANGED alert_vars

\* what a caller can make of a collection: add an element, remove one, replace one
Edited == [edited |-> TRUE]
Edits(value) ==
    {Append(value, Edited)} \cup
    (IF value = <<>> THEN {}
     ELSE {SubSeq(value, 1, Len(value) - 1), [value EXCEPT ![1] = Edited]})

\* the caller changes the result it holds; the change lands in the object that
\* holds the result
ReaderEdit ==
    /\ held # NoResult
    /\ held.edits < MaxEdits
    /\ \E v \in Edits(held.value) :
          /\ held' = [held EXCEPT !.value = v, !.edits = @ + 1]
          /\ IF held.object = "df"
             THEN /\ df' = v
                  /\ UNCHANGED <<max_records, data, added, alert_vars>>
             ELSE IF held.object = "alerts"
             THEN /\ alerts' = v
                  /\ UNCHANGED <<store_vars, max_alerts, callbacks, price_change_threshold,
                                 volatility_threshold, volatility_critical, raised, last_call>>
             ELSE UNCHANGED <<store_vars, alert_vars>>
    /\ UNCHANGED <<source_vars, app_vars, checker, setter, analytics>>

ReaderGetLatest ==
    /\ \E n \in 0..MaxRows : get_latest(n)
    /\ UNCHANGED <<alert_vars, source_vars, app_vars, checker, setter, analytics>>

ReaderGetAll ==
    /\ get_all
    /\ UNCHANGED <<alert_vars, source_vars, app_vars, checker, setter, analytics>>

ReaderGetRecentAlerts ==
    /\ \E n \in 0..MaxRows : get_recent_alerts(n)
    /\ UNCHANGED <<store_vars, source_vars, app_vars, checker, setter, analytics>>

ReaderGetAllAlerts ==
    /\ get_all_alerts
    /\ UNCHANGED <<store_vars, source_vars, app_vars, checker, setter, analytics>>

\* add_tick while a result is held: self.df is bound to a new DataFrame, so a
\* result living in the old one no longer shares it
ReaderAddTick ==
    /\ Len(added) < MaxReadAdds
    /\ \E p \in {<<100, 1>>, <<102, 1>>} : add_tick(Tick(Len(added) + 1, p))
    /\ held' = IF held # NoResult /\ held.object = "df"
               THEN [held EXCEPT !.object = "fresh"] ELSE held
    /\ UNCHANGED <<alert_vars, source_vars, app_vars, checker, setter, analytics>>

\* a check while a result is held: self.alerts is changed in place, so a result
\* living in that list changes with it
ReaderCheckVolatility ==
    /\ Len(raised) < MaxReadRaised
    /\ \E v \in {<<3, 100>>, <<3, 50>>} : check_volatility_alert(v)
    /\ held' = IF held # NoResult /\ held.object = "alerts"
               THEN [held EXCEPT !.value = alerts'] ELSE held
    /\ UNCHANGED <<store_vars, source_vars, app_vars, checker, setter, analytics>>

ReaderNext ==
    \/ ReaderAddTick
    \/ ReaderCheckVolatility
    \/ ReaderGetLatest
    \/ ReaderGetAll
    \/ ReaderGetRecentAlerts
    \/ ReaderGetAllAlerts
    \/ ReaderEdit

InitReaders == StoreInitWith({MaxCapacity}) /\ AlertInitWith({MaxAlertCap}) /\ AppSourceInit
               /\ AppInit /\ CallerInit
SpecReaders == InitReaders /\ [][ReaderNext]_vars

----------------------------------------------------------------------------
(* A check on one thread while another thread reads the alert history:     *)
(* _trigger_alert holds no lock, so a reader can run between its append    *)
(* and its eviction                                                        *)

\* the alert check_volatility_alert(volatility) builds, NoAlert when no threshold
\* is exceeded
VolatilityAlert(volatility) ==
    LET branch == VolatilityBranch(volatility, volatility_threshold, volatility_critical)
    IN  IF branch = CRITICAL
        THEN Alert(CRITICAL, <<"CRITICAL: Volatility extremely high at">>,
                   volatility, volatility_critical, "volatility", Now)
        ELSE IF branch = WARNING
        THEN Alert(WARNING, <<"Volatility elevated at">>,
                   volatility, volatility_threshold, "volatility", Now)
        ELSE NoAlert

\* check_volatility_alert up to and including self.alerts.append(alert)
TriggerAppend ==
    /\ checker.pc = "idle"
    /\ Len(raised) < MaxRaised
    /\ \E v \in Volatilities :
          LET alert == VolatilityAlert(v)
          IN  IF alert = NoAlert
              THEN /\ no_alert("check_volatility_alert", <<v>>)
                   /\ checker' = checker
              ELSE /\ alerts' = Append(alerts, alert)
                   /\ raised' = Append(raised, alert)
                   /\ checker' = [checker EXCEPT !.pc = "appended", !.volatility = v,
                                                 !.ret = alert]
                   /\ UNCHANGED <<max_alerts, callbacks, price_change_threshold,
                                  volatility_threshold, volatility_critical, last_call>>
    /\ UNCHANGED <<store_vars, source_vars, app_vars, held, setter, analytics>>

\* if len(self.alerts) > self.max_alerts: self.alerts.pop(0); the callback loop;
\* return alert
TriggerEvict ==
    /\ checker.pc = "appended"
    /\ LET n == Notify(callbacks, checker.ret, 1)
       IN  /\ alerts' = IF Len(alerts) > max_alerts THEN Tail(alerts) ELSE alerts
           /\ last_call' = [op |-> "check_volatility_alert", args |-> <<checker.volatility>>,
                            ret |-> IF n.propagated THEN Raised("Exception") ELSE checker.ret,
                            notified |-> n.calls]
    /\ checker' = [checker EXCEPT !.pc = "idle"]
    /\ UNCHANGED <<max_alerts, callbacks, price_change_threshold, volatility_threshold,
                   volatility_critical, raised>>
    /\ UNCHANGED <<store_vars, source_vars, app_vars, held, setter, analytics>>

HistoryNext ==
    \/ TriggerAppend
    \/ TriggerEvict
    \/ ReaderGetAllAlerts
    \/ ReaderGetRecentAlerts

InitHistory == AppStoreInit /\ AlertInitWith(1..MaxAlertCap) /\ AppSourceInit /\ AppInit /\ CallerInit
SpecHistory == InitHistory /\ [][HistoryNext]_vars

----------------------------------------------------------------------------
(* Properties                                                              *)

IsCheck(call) == call.op \in {"check_price_alert", "check_volatility_alert"}
IsAlert(r) == r # NoAlert /\ r \notin {Raised("Exception"), Raised("ZeroDivisionError")}

\* a > b on rationals with positive denominators
Exceeds(a, b) == a[1] * b[2] > b[1] * a[2]

\* C1: the store holds at most max_records ticks, and they are exactly the last
\* min(m, max_records) of the m ticks added since the last clear, in arrival order.
StoreKeepsLastTicks ==
    /\ Len(data) <= max_records
    /\ Len(data) = Min(Len(added), max_records)
    /\ \A i \in 1..Len(data) : data[i] = added[Len(added) - Len(data) + i]

\* witness C1: a store of capacity 2 that has lost its first two ticks
StoreOverflowed ==
    /\ max_records >= 2
    /\ Len(added) >= max_records + 2
    /\ Len(data) = max_records
    /\ data[1] # added[1]

\* C2: the alert history holds at most max_alerts alerts, and they are the most
\* recently raised ones in the order raised (the oldest is the one evicted).
AlertHistoryKeepsNewest ==
    /\ Len(alerts) <= max_alerts
    /\ Len(alerts) = Min(Len(raised), max_alerts)
    /\ \A i \in 1..Len(alerts) : alerts[i] = raised[Len(raised) - Len(alerts) + i]

\* witness C2: more alerts raised than a history of at least two can hold
AlertHistoryOverflowed ==
    /\ max_alerts >= 2
    /\ Len(raised) > max_alerts
    /\ Len(alerts) = max_alerts
    /\ IsCheck(last_call)

\* the call check_price(102, 100) under the default threshold 2.0
CheckPrice102Over100 ==
    /\ last_call.op = "check_price_alert"
    /\ last_call.args = <<(<<102, 1>>), (<<100, 1>>)>>
    /\ price_change_threshold = <<2, 1>>

\* C3 as stated: check_price(102, 100) under the default threshold raises a WARNING
\* alert whose value is 2.0, returns it and records it in the history.
PriceAtThresholdRaisesWarning ==
    CheckPrice102Over100 =>
        /\ IsAlert(last_call.ret)
        /\ last_call.ret.level = WARNING
        /\ last_call.ret.value = <<2, 1>>
        /\ max_alerts >= 1 => (alerts # <<>> /\ alerts[Len(alerts)] = last_call.ret)

\* C3 amended: a percent change of exactly the threshold is not a breach:
\* check_price(102, 100) under the default threshold 2.0 returns none, invokes no
\* observer and no alert with value 2.0 is in the history.
PriceAtThresholdRaisesNothing ==
    /\ CheckPrice102Over100 => (last_call.ret = NoAlert /\ last_call.notified = <<>>)
    /\ price_change_threshold = <<2, 1>> =>
           \A i \in 1..Len(alerts) :
               alerts[i].metric = "price_change" => alerts[i].value \notin {<<2, 1>>, <<-2, 1>>}

\* witness C3: check_price(102, 100) has just returned under the default threshold,
\* with an observer registered and an earlier alert in the history
PriceAtThresholdChecked ==
    /\ CheckPrice102Over100
    /\ callbacks # <<>>
    /\ alerts # <<>>

\* C4: for a non-zero previous price, check_price raises exactly one alert iff
\* |percent change| > price_change_threshold; the alert is WARNING when |change| < 5
\* and CRITICAL otherwise, has metric "price_change", the signed change as value and
\* the threshold in force; otherwise it returns none and the history is unchanged.
PriceCheckContract ==
    [][(last_call'.op = "check_price_alert" /\ last_call'.args[2] # Zero) =>
        LET c == last_call'.args[1]
            p == last_call'.args[2]
            num == 100 * (c[1] * p[2] - p[1] * c[2])   \* change = num / den
            den == c[2] * p[1]
            t == price_change_threshold
            r == last_call'.ret
        IN  IF Abs(num) * t[2] > t[1] * Abs(den)
            THEN /\ IsAlert(r)
                 /\ r.level = IF Abs(num) < 5 * Abs(den) THEN WARNING ELSE CRITICAL
                 /\ r.metric = "price_change"
                 /\ r.value[1] * den = num * r.value[2]
                 /\ r.threshold = t
                 /\ raised' = Append(raised, r)
            ELSE /\ r = NoAlert
                 /\ alerts' = alerts
                 /\ raised' = raised]_vars

\* witness C4: a CRITICAL price alert raised under a reconfigured threshold
PriceAlertUnderNewThreshold ==
    /\ last_call.op = "check_price_alert"
    /\ price_change_threshold # DefaultPriceChangeThreshold
    /\ IsAlert(last_call.ret)
    /\ last_call.ret.level = CRITICAL
    /\ last_call.ret.threshold = price_change_threshold

\* C5: check_price with previous = 0 returns none (no error) for every current
\* price and threshold, leaves the history unchanged and invokes no observer.
ZeroPreviousIsNoSignal ==
    [][(last_call'.op = "check_price_alert" /\ last_call'.args[2] = Zero) =>
        /\ last_call'.ret = NoAlert
        /\ last_call'.notified = <<>>
        /\ alerts' = alerts
        /\ raised' = raised]_vars

\* witness C5: check_price(x, 0) returned under a reconfigured threshold while an
\* observer is registered
ZeroPreviousChecked ==
    /\ last_call.op = "check_price_alert"
    /\ last_call.args[2] = Zero
    /\ last_call.ret = NoAlert
    /\ callbacks # <<>>
    /\ price_change_threshold # DefaultPriceChangeThreshold

\* C6: check_volatility raises at most one alert per call: CRITICAL with threshold
\* volatility_critical whenever value > volatility_critical, whatever the warning
\* threshold; otherwise WARNING with threshold volatility_threshold whenever
\* value > volatility_threshold; otherwise nothing.
VolatilityCheckContract ==
    [][last_call'.op = "check_volatility_alert" =>
        LET v == last_call'.args[1]
            r == last_call'.ret
        IN  /\ Exceeds(v, volatility_critical) =>
                /\ IsAlert(r)
                /\ r.level = CRITICAL
                /\ r.threshold = volatility_critical
            /\ (~Exceeds(v, volatility_critical) /\ Exceeds(v, volatility_threshold)) =>
                /\ IsAlert(r)
                /\ r.level = WARNING
                /\ r.threshold = volatility_threshold
            /\ (~Exceeds(v, volatility_critical) /\ ~Exceeds(v, volatility_threshold)) =>
                r = NoAlert
            /\ IsAlert(r) => (r.value = v /\ r.metric = "volatility")
            /\ raised' = IF IsAlert(r) THEN Append(raised, r) ELSE raised]_vars

\* witness C6: 0.06 under the defaults (0.02, 0.05) has raised one CRITICAL alert
VolatilityCriticalUnderDefaults ==
    /\ last_call.op = "check_volatility_alert"
    /\ last_call.args = <<(<<3, 50>>)>>
    /\ volatility_threshold = <<1, 50>>
    /\ volatility_critical = <<1, 20>>
    /\ IsAlert(last_call.ret)
    /\ last_call.ret.level = CRITICAL

\* C7: when a check raises an alert every registered observer is invoked exactly
\* once with that alert, in registration order, before the check returns; when a
\* check raises no alert no observer is invoked.
ObserversNotifiedInOrder ==
    IsCheck(last_call) =>
        IF IsAlert(last_call.ret)
        THEN /\ Len(last_call.notified) = Len(callbacks)
             /\ \A i \in 1..Len(callbacks) :
                    /\ last_call.notified[i].observer = callbacks[i]
                    /\ last_call.notified[i].alert = last_call.ret
        ELSE last_call.notified = <<>>

\* witness C7: an alert was delivered to two different observers
TwoObserversNotified ==
    /\ IsCheck(last_call)
    /\ IsAlert(last_call.ret)
    /\ Len(callbacks) = 2
    /\ callbacks[1] # callbacks[2]
    /\ Len(last_call.notified) = 2

\* C8: if an observer fails while being notified, the alert is still recorded in
\* the history, every observer registered after the failing one is still invoked
\* with the alert, and the check returns the alert instead of propagating.
ObserverFailureContained ==
    (IsCheck(last_call) /\ raised # <<>> /\ last_call.notified # <<>>) =>
        LET alert == raised[Len(raised)]
            n == last_call.notified
        IN  (\E i \in 1..Len(n) : n[i].outcome = "raised") =>
                /\ last_call.ret = alert
                /\ max_alerts >= 1 => (alerts # <<>> /\ alerts[Len(alerts)] = alert)
                /\ Len(n) = Len(callbacks)
                /\ \A j \in 1..Len(callbacks) :
                       n[j].observer = callbacks[j] /\ n[j].alert = alert

\* witness C8: the first observer failed and the second one was still invoked
FailureThenNextObserverInvoked ==
    /\ IsCheck(last_call)
    /\ IsAlert(last_call.ret)
    /\ callbacks = <<"bad", "ok">>
    /\ Len(last_call.notified) = 2
    /\ last_call.notified[1].outcome = "raised"
    /\ last_call.notified[2].outcome = "returned"
    /\ max_alerts >= 1

\* a tick of the canonical shape {symbol, timestamp, price, volume}
WellFormedTick(t) ==
    /\ DOMAIN t = {"symbol", "timestamp", "price", "volume"}
    /\ t.timestamp[1] = "iso"
    /\ RGt(t.price, Zero)
    /\ ~RLt(t.volume, Zero)

\* C9: when the live adapter fails to establish its connection, stream_data does
\* not fail, the callback gets well-formed synthetic ticks paced at the interval
\* configured on the live adapter, and the source is in fallback.
FallbackKeepsConfiguredInterval ==
    ws = "failed" =>
        /\ outcome \in {"running", "returned"}
        /\ mock # NoClient
        /\ b_pc = "fallback" => mock.interval = binance.interval
        /\ \A i \in 1..Len(delivered) : WellFormedTick(delivered[i])
        /\ \A i \in 1..(Len(delivered) - 1) :
               delivered[i + 1].timestamp[2] - delivered[i].timestamp[2] = binance.interval

\* C10: an unrecoverable I/O error on the established live connection moves the
\* source to fallback, instead of the receive loop going on against the dead
\* connection.
FeedDropFallsBack ==
    last_recv = "ConnectionClosed" =>
        /\ b_pc \in {"fallback", "done"}
        /\ mock # NoClient

\* the source object the owner holds: the live adapter, or the mock client
SourceConnected == IF binance # NoClient THEN binance.is_connected ELSE mock.is_connected

\* C11: in the live adapter a receive timeout or a malformed message invokes no
\* callback, does not end the stream, does not close the connection and does not
\* trigger fallback; the loop goes on to the next recv().
TransientErrorsKeepStream ==
    [][(/\ b_pc = "recv"
        /\ last_recv' \in {"timeout", "JSONDecodeError", "KeyError"}
        /\ (clock' # clock \/ last_recv' # last_recv \/ b_pc' = "loop")) =>
            /\ delivered' = delivered
            /\ b_pc' = "loop"
            /\ ws' = "open"
            /\ mock' = NoClient
            /\ binance' = binance
            /\ outcome' = "running"]_vars

\* witness C11: a well-formed message was delivered by the recv() that followed a
\* timeout (only timeouts move the clock by 30 seconds)
MessageAfterTimeout ==
    /\ last_recv = "message"
    /\ clock >= RecvTimeout
    /\ b_pc = "sleep"
    /\ ws = "open"
    /\ delivered # <<>>

\* the step that cancels the task while it is suspended in a sleep, a recv() or
\* the connection attempt
CancelStep ==
    /\ outcome = "running"
    /\ \/ (m_pc = "sleep" /\ m_pc' = "done")
       \/ (b_pc \in {"connect", "recv", "sleep"} /\ b_pc' = "done")

\* C12: cancelling stream_data at any suspension point runs disconnect() before
\* the call returns, leaves the source disconnected, and no callback is invoked
\* after the cancellation.
CancelLeavesDisconnected ==
    /\ [][CancelStep =>
            /\ delivered' = delivered
            /\ m_pc' = "done" => ~mock'.is_connected
            /\ b_pc' = "done" => ~binance'.is_connected]_vars
    /\ [][(m_pc = "done" \/ b_pc = "done") => delivered' = delivered]_vars
    /\ [](outcome \in {"returned", "cancelled"} => ~SourceConnected)

\* witness C12: the stream was cancelled while delegated to the fallback generator
\* (the only way that generator's loop ends) and the call has returned
CancelledInFallback ==
    /\ ws = "failed"
    /\ m_pc = "done"
    /\ b_pc = "done"
    /\ outcome = "returned"
    /\ delivered # <<>>
    /\ ~binance.is_connected
    /\ ~mock.is_connected

\* C13: disconnect() can be called in every state of either source, always leaves
\* it disconnected, and a second call changes nothing.
DisconnectIdempotent ==
    /\ [](ENABLED Disconnect)
    /\ [][Disconnect =>
            /\ ~SourceConnected'
            /\ UNCHANGED <<b_pc, m_pc, ws, last_recv, delivered, clock, outcome>>]_vars
    /\ [][(Disconnect /\ ~SourceConnected) => UNCHANGED <<binance, mock>>]_vars

\* witness C13: disconnect() was called while the synthetic generator was in its
\* interval sleep
DisconnectedWhileStreaming ==
    /\ binance = NoClient
    /\ m_pc = "sleep"
    /\ outcome = "running"
    /\ ~mock.is_connected

\* C16: after every add_tick or clear the frame df has as many rows as the
\* circular buffer, row i is buffered tick i, and latest_price is the price of the
\* most recently added tick, or absent when the store is empty.
FrameMatchesBuffer ==
    /\ Len(df) = Len(data)
    /\ \A i \in 1..Len(data) :
           /\ df[i].symbol = data[i].symbol
           /\ df[i].price = data[i].price
           /\ df[i].volume = data[i].volume
           /\ df[i].timestamp[1] = "datetime"
           /\ df[i].timestamp[2] = data[i].timestamp[2]
    /\ get_latest_price = IF data = <<>> THEN None ELSE added[Len(added)].price

\* witness C16: the buffer has wrapped and the frame shows its two ticks, the
\* newest with a price different from the one before
FrameAfterWrap ==
    /\ Len(added) > max_records
    /\ Len(df) = 2
    /\ df[1].price # df[2].price
    /\ get_latest_price = added[Len(added)].price

\* C17: set_thresholds is a partial update: a supplied threshold takes the supplied
\* value, an omitted one keeps its value, and the alert history and the observer
\* list are unchanged.
SetThresholdsPartial ==
    [][last_call'.op = "set_thresholds" =>
        LET a == last_call'.args
        IN  /\ price_change_threshold' = IF a[1] = None THEN price_change_threshold ELSE a[1]
            /\ volatility_threshold' = IF a[2] = None THEN volatility_threshold ELSE a[2]
            /\ volatility_critical' = IF a[3] = None THEN volatility_critical ELSE a[3]
            /\ alerts' = alerts
            /\ callbacks' = callbacks
            /\ max_alerts' = max_alerts]_vars

\* witness C17: only the warning threshold was supplied; the price threshold set
\* by an earlier call and the default critical threshold are kept, with an alert
\* in the history and an observer registered
OnlyWarningThresholdSet ==
    /\ last_call.op = "set_thresholds"
    /\ last_call.args[1] = None
    /\ <<1, 25>> = last_call.args[2]
    /\ last_call.args[3] = None
    /\ price_change_threshold = <<6, 1>>
    /\ volatility_threshold = <<1, 25>>
    /\ volatility_critical = DefaultVolatilityCritical
    /\ alerts # <<>>
    /\ callbacks # <<>>

\* a caller step on the held result, and a reader call that hands out a result
CallerEdits == held # NoResult /\ held' # NoResult /\ held'.edits = held.edits + 1
ReaderReturns(op) == held' # NoResult /\ held'.op = op /\ held'.edits = 0 /\ held' # held

\* C18: the results of get_all / get_latest and of get_all_alerts /
\* get_recent_alerts are copies: a caller adding, removing or replacing elements
\* of a result changes neither the store nor the alert history, and a later
\* add_tick or check leaves a result already returned as it was.
ResultsAreCopies ==
    /\ [][CallerEdits => UNCHANGED <<store_vars, alert_vars>>]_vars
    /\ [][(held # NoResult /\ (added' # added \/ raised' # raised)) => held' = held]_vars
    /\ [](held # NoResult /\ held.edits = 0 => held.value = held.returned)

\* witness C18: a full result was handed out, the caller changed it, and a tick
\* and an alert were added afterwards
EditedResultThenWrites ==
    /\ held # NoResult
    /\ held.op \in {"get_all", "get_all_alerts"}
    /\ held.returned # <<>>
    /\ held.edits = 1
    /\ Len(added) > Len(held.returned)
    /\ Len(raised) = MaxReadRaised
    /\ \A i \in 1..Len(df) : df[i] # Edited
    /\ \A i \in 1..Len(alerts) : alerts[i] # Edited

\* C20: get_latest(n), n >= 0, returns the min(n, size) most recently added ticks
\* in arrival order, an empty result when the store is empty, and does not modify
\* the store.
LatestReturnsNewestRows ==
    [][ReaderReturns("get_latest") =>
        LET n == held'.args[1]
            k == Min(n, Len(data))
            rows == held'.returned
        IN  /\ UNCHANGED store_vars
            /\ Len(rows) = k
            /\ \A i \in 1..k :
                  LET tick == data[Len(data) - k + i]
                  IN  /\ rows[i].symbol = tick.symbol
                      /\ rows[i].price = tick.price
                      /\ rows[i].volume = tick.volume
                      /\ rows[i].timestamp[2] = tick.timestamp[2]
            /\ k > 0 => rows[k].price = added[Len(added)].price]_vars

\* witness C20: one row was asked of a store that has dropped its oldest tick and
\* holds two ticks of different prices
LatestOneOfTwo ==
    /\ held # NoResult
    /\ held.op = "get_latest"
    /\ held.args = <<1>>
    /\ held.edits = 0
    /\ Len(held.returned) = 1
    /\ Len(data) = 2
    /\ Len(added) > Len(data)
    /\ data[1].price # data[2].price
    /\ held.returned[1].price = data[2].price

\* C19: a check_volatility_alert call that runs while set_thresholds is called
\* evaluates against one configuration: the critical and the warning threshold
\* it compared with are those of one configuration in effect during the call, and
\* the threshold recorded in the alert it raised is the one it compared with.
CheckSeesOneConfiguration ==
    checker.pc = "idle" /\ checker.calls > 0 =>
        /\ checker.warning_read # None =>
               <<checker.warning_read, checker.critical_read>> \in checker.configurations
        /\ checker.ret # NoAlert =>
               checker.ret.threshold = IF checker.ret.level = CRITICAL
                                       THEN checker.critical_read
                                       ELSE checker.warning_read

\* C14: ticks reach the callback, and the store, in the order the source
\* produced them: the callback has taken every produced tick once, in order, and
\* the store holds a contiguous suffix of the produced sequence.
StoreIsSuffixOfProduced ==
    callback_pc = "idle" =>
        /\ added = delivered
        /\ Len(data) = Min(Len(delivered), max_records)
        /\ \A i \in 1..Len(data) : data[i] = delivered[Len(delivered) - Len(data) + i]

\* witness C14: three or more ticks were produced, of different prices, and the
\* store of capacity MaxCapacity holds the newest of them
StoreHoldsNewestProduced ==
    /\ callback_pc = "idle"
    /\ max_records = MaxCapacity
    /\ Len(delivered) > MaxCapacity
    /\ Len(data) = MaxCapacity
    /\ delivered[1].price # delivered[Len(delivered)].price
    /\ data[Len(data)] = delivered[Len(delivered)]

IngestStep == callback_pc = "idle" /\ callback_pc' = "volatility"
VolatilityStep == callback_pc = "volatility" /\ callback_pc' = "idle"

\* C15: in data_stream_callback the checks for a tick run after the tick is in the
\* store: the price check compares the tick's price with the price of the tick
\* ingested just before (none for the first tick), and the volatility check is
\* computed from the store contents whose newest element is that tick.
ChecksFollowIngest ==
    /\ [][IngestStep =>
            LET tick == delivered'[Len(delivered')]
            IN  /\ added' = Append(added, tick)
                /\ (max_records > 0 => data'[Len(data')] = tick)
                /\ IF delivered = <<>>
                   THEN UNCHANGED alert_vars
                   ELSE /\ last_call'.op = "check_price_alert"
                        /\ last_call'.args = <<tick.price, delivered[Len(delivered)].price>>]_vars
    /\ [][VolatilityStep =>
            LET tick == delivered[Len(delivered)]
            IN  /\ UNCHANGED <<store_vars, delivered>>
                /\ IF Len(data) > MinRowsForVolatility
                   THEN /\ data[Len(data)] = tick
                        /\ last_call'.op = "check_volatility_alert"
                        /\ last_call'.args =
                              <<calculate_volatility([i \in 1..Len(data) |-> data[i].price],
                                                     VolatilityWindow)>>
                   ELSE UNCHANGED alert_vars]_vars

\* witness C15: the price moved on the twentieth tick or later, which raised a
\* price alert, and the volatility computed from the store that holds that tick
\* raised a volatility alert
VolatilityAlertFromFreshStore ==
    /\ callback_pc = "idle"
    /\ Len(df) >= VolatilityWindow
    /\ last_call.op = "check_volatility_alert"
    /\ last_call.ret # NoAlert
    /\ Len(alerts) = 2
    /\ alerts[1].metric = "price_change"
    /\ alerts[2].metric = "volatility"
    /\ delivered[Len(delivered) - 1].price # delivered[Len(delivered)].price

\* C21: for a non-empty price series and a window >= 1, calculate_moving_average
\* returns an empty result iff the series is shorter than the window, and else one
\* value per price, value i being the mean of the up-to-window prices ending at i.
MovingAverageContract ==
    (analytics.op = "calculate_moving_average" /\ analytics.prices # <<>>) =>
        LET prices == analytics.prices
            window == analytics.window
            result == analytics.result
        IN  /\ (result = <<>>) <=> (Len(prices) < window)
            /\ Len(result) <= Len(prices)
            /\ result # <<>> =>
                  /\ Len(result) = Len(prices)
                  /\ \A i \in 1..Len(prices) :
                        LET k == Min(i, window)
                        IN  RMul(result[i], <<k, 1>>) =
                                RSum(SubSeq(prices, i - k + 1, i))

\* witness C21: a window of 2 over three prices: the first value is the first
\* price, the others are means of two different prices
MovingAverageOverThree ==
    /\ analytics.op = "calculate_moving_average"
    /\ analytics.window = 2
    /\ Len(analytics.prices) = 3
    /\ analytics.prices[1] # analytics.prices[2]
    /\ analytics.prices[2] # analytics.prices[3]
    /\ Len(analytics.result) = 3
    /\ analytics.result[1] = analytics.prices[1]
    /\ analytics.result[3] # analytics.prices[3]

\* C22: calculate_volatility returns a defined, non-negative number for every
\* price series and every window >= 1, and 0.0 for fewer than 2 prices.
VolatilityDefinedNonNegative ==
    analytics.op = "calculate_volatility" =>
        /\ analytics.result # NaN
        /\ ~RLt(analytics.result, Zero)
        /\ Len(analytics.prices) < 2 => analytics.result = Zero

\* C23: get_recent_alerts(n) returns the n most recent alerts in the order they
\* were raised, so for every n >= 0, n = 0 included, the result has at most n
\* elements.
RecentAlertsAtMostN ==
    [][ReaderReturns("get_recent_alerts") =>
        LET n == held'.args[1]
            k == Min(n, Len(alerts))
            recent == held'.returned
        IN  /\ Len(recent) <= n
            /\ recent = SubSeq(alerts, Len(alerts) - k + 1, Len(alerts))]_vars

\* C24: after disconnect() on a running source the loop stops: at most the cycle
\* in progress completes and the callback is not invoked afterwards, for the mock
\* source, for the live adapter on a live connection and for the live adapter
\* delegating to the fallback generator.  The cycle in progress is the live
\* adapter's pending recv(); every other cycle starts with the loop test.
DisconnectStopsCallbacks ==
    [][(outcome = "running" /\ ~SourceConnected /\ delivered' # delivered) =>
          (mock = NoClient /\ b_pc = "recv")]_vars

\* C25: a reader calling get_all_alerts() or get_recent_alerts(n) concurrently
\* with a check never observes a history longer than max_alerts: the append and
\* the eviction are atomic with respect to readers.
ReadersSeeBoundedHistory ==
    (held # NoResult /\ held.op \in {"get_all_alerts", "get_recent_alerts"}) =>
        Len(held.returned) <= max_alerts

\* C26: every tick of the mock source has a price of at least the floor 100 and
\* a volume within [10, 500], and the generator's current price is never below
\* the floor between cycles.
MockTicksWithinRange ==
    mock # NoClient =>
        /\ ~RLt(mock.current_price, <<100, 1>>)
        /\ \A i \in 1..Len(delivered) :
              /\ ~RLt(delivered[i].price, <<100, 1>>)
              /\ ~RLt(delivered[i].volume, <<10, 1>>)
              /\ ~RGt(delivered[i].volume, <<500, 1>>)

\* witness C26: the random walk stepped below the floor and the tick delivered
\* carries the floor as its price
MockTickClampedAtFloor ==
    /\ mock # NoClient
    /\ Len(delivered) >= 2
    /\ mock.price_change = <<-45000, 1>>
    /\ mock.current_price = <<100, 1>>
    /\ delivered[Len(delivered)].price = <<100, 1>>
    /\ delivered[Len(delivered)].volume = <<500, 1>>

\* C27: with non-negative volatility thresholds the pipeline raises no volatility
\* alert while the store holds fewer than 20 ticks: the check is skipped for up
\* to 10 ticks, and for 11 to 19 ticks the volatility handed to it is 0.0.
NoVolatilityAlertBelowWindow ==
    /\ [][(VolatilityStep /\ Len(data) < 20
           /\ ~RLt(volatility_threshold, Zero) /\ ~RLt(volatility_critical, Zero)) =>
            /\ raised' = raised
            /\ alerts' = alerts
            /\ IF Len(data) <= 10
               THEN UNCHANGED alert_vars
               ELSE /\ last_call'.op = "check_volatility_alert"
                    /\ last_call'.args = <<Zero>>
                    /\ last_call'.ret = NoAlert]_vars
    /\ [](Len(added) < 20 => \A i \in 1..Len(raised) : raised[i].metric # "volatility")

\* witness C27: the price moved within the first nineteen ticks, which raised a
\* price alert; with the lowest thresholds the sliders allow, the volatility check
\* of a store of 11 to 19 ticks was handed 0.0 and raised nothing
QuietCheckAfterMove ==
    /\ callback_pc = "idle"
    /\ Len(data) > 10
    /\ Len(data) < 20
    /\ volatility_threshold = <<1, 1000>>
    /\ last_call.op = "check_volatility_alert"
    /\ last_call.args = <<Zero>>
    /\ last_call.ret = NoAlert
    /\ data[1].price # data[Len(data)].price
    /\ Len(raised) = 1
    /\ raised[1].metric = "price_change"

============================================================================
